---- MODULE Spec2Model ----
(***************************************************************************)
(* Model of the audio library indexer: the path classifier (parse_path),   *)
(* the tree crawler (crawl_dir), the catalog reconciler (startup_scan,     *)
(* find_or_create_song, save_metadata) and the start-up sequence of main.  *)
(*                                                                         *)
(* Strings are sequences of one-character strings, so that splitting,      *)
(* joining and textual replacement are computed, not assumed.  An          *)
(* Option<T> is a set with no element (None / NULL) or one element.        *)
(***************************************************************************)
EXTENDS Integers, Sequences, FiniteSets, TLC

\* ------------------------------------------------------------------ bounds
\* Longest descriptor list handed to one reconciliation run.
MaxFiles == 2
\* Most tag reads followed per catalog entry (every failed metadata insert
\* allows one more).
MaxExtract == 2
\* Most requests followed once the server runs.
MaxRequests == 2
\* Most directories above a file handed to parse_path.
MaxDepth == 3

\* ----------------------------------------------------------------- strings
Unknown == <<"U", "n", "k", "n", "o", "w", "n">>
ogg == <<"o", "g", "g">>
flac == <<"f", "l", "a", "c">>
mp3 == <<"m", "p", "3">>
wav == <<"w", "a", "v">>

\* main: the fixed list of allowed extensions
extns == <<ogg, flac, mp3, wav>>

Some(x) == {x}
None == {}
Unwrap(o) == CHOOSE x \in o : TRUE

\* Path::to_str of a relative path: its components joined by '/'
RECURSIVE to_str(_)
to_str(path) ==
    IF Len(path) = 0 THEN <<>>
    ELSE IF Len(path) = 1 THEN path[1]
    ELSE path[1] \o <<"/">> \o to_str(Tail(path))

\* str::split(sep): the segments between the occurrences of sep
RECURSIVE split(_, _)
split(s, sep) ==
    IF \A i \in 1..Len(s) : s[i] # sep THEN <<s>>
    ELSE LET i == CHOOSE i \in 1..Len(s) :
                      s[i] = sep /\ \A j \in 1..(i - 1) : s[j] # sep
         IN  <<SubSeq(s, 1, i - 1)>> \o split(SubSeq(s, i + 1, Len(s)), sep)

starts_with(s, pat) == Len(s) >= Len(pat) /\ SubSeq(s, 1, Len(pat)) = pat

\* str::replace(pat, to): every non-overlapping match, left to right
RECURSIVE replace(_, _, _)
replace(s, pat, to) ==
    IF Len(s) = 0 THEN <<>>
    ELSE IF starts_with(s, pat)
         THEN to \o replace(SubSeq(s, Len(pat) + 1, Len(s)), pat, to)
         ELSE <<s[1]>> \o replace(Tail(s), pat, to)

\* Path::file_name: the last component
file_name(path) == path[Len(path)]

\* Path::extension: the part of the file name after its last dot; none when
\* the name has no dot or only a leading one
extension(path) ==
    LET name == file_name(path)
        dots == {i \in 1..Len(name) : name[i] = "."}
    IN  IF dots = {} THEN None
        ELSE LET d == CHOOSE i \in dots : \A j \in dots : j <= i
             IN  IF d = 1 THEN None ELSE Some(SubSeq(name, d + 1, Len(name)))

\* ------------------------------------------------------------- parse_path
\* str::to_lowercase on the letters used in the names
to_lowercase(s) ==
    [i \in 1..Len(s) |->
        CASE s[i] = "M" -> "m" [] s[i] = "P" -> "p" [] s[i] = "S" -> "s"
          [] OTHER -> s[i]]

\* parse_path taking the first two segments whenever there are at least three
parse_path_first_two(allowed_extensions, rel_path) ==
    LET ext == extension(rel_path)
    IN  IF ext = None THEN None
        ELSE LET parsed_extension == Unwrap(ext)
             IN  IF ~ \E i \in 1..Len(allowed_extensions) :
                          allowed_extensions[i] = parsed_extension
                 THEN None
                 ELSE LET filepath == to_str(rel_path)
                          segments == split(filepath, "/")
                          three    == Len(segments) >= 3
                          filename == replace(file_name(rel_path),
                                              <<".">> \o parsed_extension, <<>>)
                      IN  Some([filename  |-> filename,
                                filepath  |-> filepath,
                                extension |-> parsed_extension,
                                artist    |-> IF three THEN segments[1] ELSE Unknown,
                                album     |-> IF three THEN segments[2] ELSE Unknown,
                                full_path |-> to_str(rel_path)])

\* parse_path comparing the extension without regard to case
parse_path_any_case(allowed_extensions, rel_path) ==
    LET ext == extension(rel_path)
    IN  IF ext = None THEN None
        ELSE LET parsed_extension == Unwrap(ext)
             IN  IF ~ \E i \in 1..Len(allowed_extensions) :
                          allowed_extensions[i] = to_lowercase(parsed_extension)
                 THEN None
                 ELSE LET filepath == to_str(rel_path)
                          segments == split(filepath, "/")
                          three    == Len(segments) = 3
                          filename == replace(file_name(rel_path),
                                              <<".">> \o parsed_extension, <<>>)
                      IN  Some([filename  |-> filename,
                                filepath  |-> filepath,
                                extension |-> parsed_extension,
                                artist    |-> IF three THEN segments[1] ELSE Unknown,
                                album     |-> IF three THEN segments[2] ELSE Unknown,
                                full_path |-> to_str(rel_path)])

parse_path(allowed_extensions, rel_path) ==
    LET ext == extension(rel_path)
    IN  IF ext = None THEN None
        ELSE LET parsed_extension == Unwrap(ext)
             IN  IF ~ \E i \in 1..Len(allowed_extensions) :
                          allowed_extensions[i] = parsed_extension
                 THEN None
                 ELSE LET filepath == to_str(rel_path)
                          segments == split(filepath, "/")
                          three    == Len(segments) = 3
                          filename == replace(file_name(rel_path),
                                              <<".">> \o parsed_extension, <<>>)
                      IN  Some([filename  |-> filename,
                                filepath  |-> filepath,
                                extension |-> parsed_extension,
                                artist    |-> IF three THEN segments[1] ELSE Unknown,
                                album     |-> IF three THEN segments[2] ELSE Unknown,
                                full_path |-> to_str(rel_path)])

\* PartialSong::with_id: the descriptor as a Song carrying its position
with_id(ps, id) ==
    [id             |-> id,
     file_name      |-> ps.filename,
     file_extension |-> ps.extension,
     file_path      |-> ps.filepath,
     artist         |-> ps.artist,
     album          |-> ps.album,
     full_path      |-> ps.full_path]


\* -------------------------------------------------------------- crawl_dir
\* MUS_DIR, the directory main scans
start_path == << <<"l", "i", "b">> >>

\* Path::strip_prefix(base)
strip_prefix(path, base) == SubSeq(path, Len(base) + 1, Len(path))
\* Path::parent
parent(path) == SubSeq(path, 1, Len(path) - 1)

Ok(v) == [ok |-> TRUE, entries |-> v]
Err == [ok |-> FALSE, entries |-> <<>>]

\* crawl_dir on a disk: disk.dirs and disk.files are the directories and
\* files that exist, disk.listing[d] the order in which read_dir yields the
\* entries of d, disk.unreadable the directories whose read_dir fails and
\* disk.broken the entries whose read fails while the listing is iterated.
RECURSIVE crawl_dir(_, _, _, _)
RECURSIVE crawl_entries(_, _, _, _, _)

\* crawl_dir taking paths relative to the directory it is listing
crawl_dir_relative_to_dir(disk, allowed_extensions, base_path, dir) ==
    IF dir \notin disk.dirs THEN Ok(<<>>)
    ELSE IF dir \in disk.unreadable THEN Err
    ELSE crawl_entries(disk, allowed_extensions, dir, disk.listing[dir], <<>>)

crawl_dir(disk, allowed_extensions, base_path, dir) ==
    IF dir \notin disk.dirs THEN Ok(<<>>)
    ELSE IF dir \in disk.unreadable THEN Err
    ELSE crawl_entries(disk, allowed_extensions, base_path,
                       disk.listing[dir], <<>>)

\* crawl_dir's loop skipping a subdirectory whose crawl failed
crawl_entries_skip_failed(disk, allowed_extensions, base_path, rest, entries) ==
    IF rest = <<>> THEN Ok(entries)
    ELSE LET full_path == Head(rest)
         IN  IF full_path \in disk.broken THEN Err
             ELSE IF full_path \in disk.dirs
             THEN LET sub_entries == crawl_dir(disk, allowed_extensions,
                                               base_path, full_path)
                  IN  crawl_entries(disk, allowed_extensions, base_path,
                                    Tail(rest), entries \o sub_entries.entries)
             ELSE LET rel_path == strip_prefix(full_path, base_path)
                      p == parse_path(allowed_extensions, rel_path)
                  IN  crawl_entries(disk, allowed_extensions, base_path, Tail(rest),
                                    IF p = None THEN entries
                                    ELSE Append(entries, Unwrap(p)))

\* crawl_dir: the for loop over the entries still to come
crawl_entries(disk, allowed_extensions, base_path, rest, entries) ==
    IF rest = <<>> THEN Ok(entries)
    ELSE LET full_path == Head(rest)
         IN  IF full_path \in disk.broken THEN Err
             ELSE IF full_path \in disk.dirs
             THEN LET sub_entries == crawl_dir(disk, allowed_extensions,
                                               base_path, full_path)
                  IN  IF ~sub_entries.ok THEN Err
                      ELSE crawl_entries(disk, allowed_extensions, base_path,
                                         Tail(rest), entries \o sub_entries.entries)
             ELSE LET rel_path == strip_prefix(full_path, base_path)
                      p == parse_path(allowed_extensions, rel_path)
                  IN  crawl_entries(disk, allowed_extensions, base_path, Tail(rest),
                                    IF p = None THEN entries
                                    ELSE Append(entries, Unwrap(p)))

\* ------------------------------------------------------------------- sort
\* the byte of each character used in a name
bytes ==
    [c \in {".", "/", "3", "A", "B", "U", "a", "b", "c", "f", "g", "i", "k",
            "l", "m", "n", "o", "p", "s", "t", "w", "x"} |->
        CASE c = "." -> 46  [] c = "/" -> 47  [] c = "3" -> 51
          [] c = "A" -> 65  [] c = "B" -> 66  [] c = "U" -> 85
          [] c = "a" -> 97  [] c = "b" -> 98  [] c = "c" -> 99
          [] c = "f" -> 102 [] c = "g" -> 103 [] c = "i" -> 105
          [] c = "k" -> 107 [] c = "l" -> 108 [] c = "m" -> 109
          [] c = "n" -> 110 [] c = "o" -> 111 [] c = "p" -> 112
          [] c = "s" -> 115 [] c = "t" -> 116 [] c = "w" -> 119
          [] c = "x" -> 120]

\* String's Ord: byte-wise lexicographic
RECURSIVE str_le(_, _)
str_le(a, b) ==
    IF Len(a) = 0 THEN TRUE
    ELSE IF Len(b) = 0 THEN FALSE
    ELSE IF a[1] = b[1] THEN str_le(Tail(a), Tail(b))
    ELSE bytes[a[1]] < bytes[b[1]]

\* main: the sort key (artist, album, filename) and the order of two keys
sort_key(a) == <<a.artist, a.album, a.filename>>
RECURSIVE key_le(_, _)
key_le(k1, k2) ==
    IF Len(k1) = 0 THEN TRUE
    ELSE IF k1[1] = k2[1] THEN key_le(Tail(k1), Tail(k2))
    ELSE str_le(k1[1], k2[1])

RECURSIVE Perms(_)
Perms(S) ==
    IF S = {} THEN {<<>>}
    ELSE UNION {{<<x>> \o q : q \in Perms(S \ {x})} : x \in S}

\* sort_unstable_by_key: the elements in key order; the order of elements of
\* equal key is not specified, so every such order is a possible result
sort_unstable_by_key(v) ==
    {[i \in 1..Len(v) |-> v[q[i]]] : q \in
        {q \in Perms(1..Len(v)) :
            \A i \in 1..(Len(v) - 1) : key_le(sort_key(v[q[i]]), sort_key(v[q[i + 1]]))}}

\* --------------------------------------------------------- tags on disk
\* What Tag::read_from_path can give for a file: an error, or a tag whose
\* fields are each present or absent.  year is an i32, duration an f64 held
\* in tenths of a second.
TagErr ==
    [ok |-> FALSE, title |-> None, album_title |-> None, artist |-> None,
     year |-> None, duration |-> None, genre |-> None, composer |-> None,
     track_number |-> None]
TagFull ==
    [ok |-> TRUE, title |-> Some("Song"), album_title |-> Some("Album"),
     artist |-> Some("Band"), year |-> Some(1999), duration |-> Some(1805),
     genre |-> Some("Rock"), composer |-> Some("Composer"),
     track_number |-> Some(3)]
TagSparse ==
    [ok |-> TRUE, title |-> Some("Retitled"), album_title |-> None,
     artist |-> None, year |-> Some(-1), duration |-> None,
     genre |-> None, composer |-> None, track_number |-> None]
TagReads == {TagErr, TagFull, TagSparse}

\* `y as u16`
as_u16(y) == y % 65536
\* `d.ceil() as u32` of a duration in tenths: the cast saturates, at 0 for
\* the durations followed here (all far below 2^32 seconds)
ceil_as_u32(d) ==
    LET c == -((-d) \div 10)
    IN  IF c < 0 THEN 0 ELSE c
\* String::from
String_from(x) == x

\* TrackMetadata::default(): every field absent, the key a placeholder
TrackMetadata_default ==
    [file_artifact_id |-> 0, title |-> None, album |-> None, artist |-> None,
     year |-> None, duration |-> None, genre |-> None, composer |-> None,
     track_number |-> None]

\* save_metadata with the Err arm leaving the placeholder key in place
build_metadata_no_key(tag_res, id) ==
    IF tag_res.ok
    THEN [file_artifact_id |-> id,
          title        |-> tag_res.title,
          album        |-> tag_res.album_title,
          artist       |-> tag_res.artist,
          year         |-> {as_u16(y) : y \in tag_res.year},
          duration     |-> {ceil_as_u32(d) : d \in tag_res.duration},
          genre        |-> tag_res.genre,
          composer     |-> tag_res.composer,
          track_number |-> tag_res.track_number]
    ELSE TrackMetadata_default

\* save_metadata: the TrackMetadata built from the result of the tag read
build_metadata(tag_res, id) ==
    IF tag_res.ok
    THEN [file_artifact_id |-> id,
          title        |-> {String_from(x) : x \in tag_res.title},
          album        |-> {String_from(x) : x \in tag_res.album_title},
          artist       |-> {String_from(x) : x \in tag_res.artist},
          year         |-> {as_u16(y) : y \in tag_res.year},
          duration     |-> {ceil_as_u32(d) : d \in tag_res.duration},
          genre        |-> {String_from(x) : x \in tag_res.genre},
          composer     |-> {String_from(x) : x \in tag_res.composer},
          track_number |-> tag_res.track_number]
    ELSE [TrackMetadata_default EXCEPT !.file_artifact_id = id]

\* the track_metadata row of the insert in save_metadata
meta_row(m) ==
    [filesystem_artifact_id |-> m.file_artifact_id,
     artist       |-> m.artist,
     album        |-> m.album,
     track_name   |-> m.title,
     genre        |-> m.genre,
     composer     |-> m.composer,
     release_year |-> m.year,
     track_number |-> m.track_number,
     duration     |-> m.duration]

\* ---------------------------------------------------------------- state
VARIABLES
    artifacts,     \* table filesystem_artifacts, in insertion order
    metadata,      \* table track_metadata, in insertion order
    files,         \* startup_scan: the descriptor list of the run
    idx,           \* startup_scan: position of `song` in files
    pc,            \* startup_scan: the statement to run next
    song_id,       \* startup_scan: the id find_or_create_song returned
    meta_local,    \* save_metadata: the TrackMetadata to insert
    result,        \* what the last call of startup_scan returned
    log,           \* the operations of the current run, in order
    artifacts0,    \* filesystem_artifacts as the current run found it
    metadata0,     \* track_metadata as the current run found it
    rerun,         \* the run repeats the list of a run that returned Ok
    extractCount,  \* tag reads so far, per catalog entry id
    main_pc,       \* main: the statement to run next
    fs,            \* the library directory on disk
    songs,         \* main: the sorted, numbered descriptors
    requests,      \* requests the server has accepted
    cls_allowed,   \* parse_path: the argument allowed_extensions
    cls_path,      \* parse_path: the argument rel_path
    cls_pc,        \* parse_path: called, or returned
    cls_out        \* parse_path: the Option<PartialSong> returned

store == <<artifacts, metadata>>
scanVars == <<files, idx, pc, song_id, meta_local, result, log, artifacts0,
              metadata0, rerun, extractCount>>
mainVars == <<main_pc, fs, songs, requests>>
clsVars == <<cls_allowed, cls_path, cls_pc, cls_out>>
vars == <<artifacts, metadata, files, idx, pc, song_id, meta_local, result,
          log, artifacts0, metadata0, rerun, extractCount, main_pc, fs,
          songs, requests, cls_allowed, cls_path, cls_pc, cls_out>>

\* unix_timestamp(): the clock readings followed
Times == {1700000000}

\* The relative paths the descriptor lists of the runs are drawn from: two
\* files of the same name, one in an album directory and one at the root.
ScanPaths ==
    { << <<"A">>, <<"B">>, <<"s", ".", "m", "p", "3">> >>,
      << <<"s", ".", "m", "p", "3">> >> }

RECURSIVE SeqsUpTo(_, _)
SeqsUpTo(S, n) ==
    IF n = 0 THEN {<<>>}
    ELSE LET shorter == SeqsUpTo(S, n - 1)
         IN  shorter \cup {Append(q, x) : q \in shorter, x \in S}

\* a descriptor list as main builds one: classified, then numbered by position
songs_of(paths) ==
    [i \in 1..Len(paths) |-> with_id(Unwrap(parse_path(extns, paths[i])), i - 1)]

\* the descriptor lists a run may be given: any order, repeats included
RunLists == {songs_of(paths) : paths \in SeqsUpTo(ScanPaths, MaxFiles)}

StoreOps == {"acquire", "find_select", "insert_artifact", "has_meta_select",
             "insert_meta"}
Logged(op, k, ok) == Append(log, [op |-> op, k |-> k, ok |-> ok])

\* the track_metadata rows of one catalog entry, in insertion order
RowsOf(tbl, id) == SelectSeq(tbl, LAMBDA r : r.filesystem_artifact_id = id)

\* find_or_create_song's select with the first two parameters bound in the
\* wrong order
find_existing_swapped(song) ==
    {artifacts[i].id : i \in {j \in 1..Len(artifacts) :
        /\ artifacts[j].file_name = song.file_extension
        /\ artifacts[j].file_extension = song.file_name
        /\ artifacts[j].relative_path = song.file_path}}

\* find_or_create_song: the ids its select matches
find_existing(song) ==
    {artifacts[i].id : i \in {j \in 1..Len(artifacts) :
        /\ artifacts[j].file_name = song.file_name
        /\ artifacts[j].file_extension = song.file_extension
        /\ artifacts[j].relative_path = song.file_path}}

\* find_or_create_song: the row of its insert
new_artifact(song, id, now) ==
    [id                  |-> id,
     relative_path       |-> song.file_path,
     file_name           |-> song.file_name,
     file_extension      |-> song.file_extension,
     is_present          |-> TRUE,
     first_path_segment  |-> song.artist,
     second_path_segment |-> song.album,
     created_at          |-> now,
     updated_at          |-> None]

\* startup_scan's metadata gate that never finds a row
has_meta_never(id) == FALSE

\* startup_scan's metadata gate asked for the song's position, not its entry
has_meta_by_position(id) ==
    \E i \in 1..Len(metadata) : metadata[i].filesystem_artifact_id = files[idx].id

\* startup_scan's metadata gate with the where clause left out
has_meta_any_row(id) == metadata # <<>>

\* startup_scan: the select on track_metadata, `.is_some()`
has_meta(id) == \E i \in 1..Len(metadata) : metadata[i].filesystem_artifact_id = id

Count(id) == IF id \in DOMAIN extractCount THEN extractCount[id] ELSE 0

\* The files that may be on disk under start_path: two of the same name and
\* different extension in an album directory, one at the root of the library
\* and one that is no audio file.
FileCands ==
    { start_path \o << <<"A">>, <<"B">>, <<"s", ".", "m", "p", "3">> >>,
      start_path \o << <<"A">>, <<"B">>, <<"s", ".", "f", "l", "a", "c">> >>,
      start_path \o << <<"t", ".", "o", "g", "g">> >>,
      start_path \o << <<"A">>, <<"n", ".", "t", "x", "t">> >> }

\* the directories above the files of F, start_path included
DirsOf(F) ==
    {start_path} \cup UNION {{SubSeq(f, 1, n) : n \in 1..(Len(f) - 1)} : f \in F}
Children(nodes, d) == {n \in nodes : Len(n) > 1 /\ parent(n) = d}

\* every disk the crawl may meet: any set of the files, start_path a
\* directory or not, any directories unreadable, any entries broken, the
\* entries of each directory listed in any order
Disks ==
    UNION {
      LET dirs == DirsOf(F)
          nodes == F \cup dirs
      IN  {[files |-> F, dirs |-> dirs, unreadable |-> U, broken |-> B,
            listing |-> l] :
             U \in SUBSET dirs,
             B \in {X \in SUBSET (nodes \ {start_path}) : Cardinality(X) <= 1},
             l \in {l \in [dirs -> UNION {Perms(Children(nodes, d)) : d \in dirs}] :
                      \A d \in dirs : l[d] \in Perms(Children(nodes, d))}}
      : F \in SUBSET FileCands }
    \cup {[files |-> {}, dirs |-> {}, unreadable |-> {}, broken |-> {},
           listing |-> <<>>]}

NoDisk == [files |-> {}, dirs |-> {}, unreadable |-> {}, broken |-> {},
           listing |-> <<>>]

Init ==
    /\ artifacts = <<>>
    /\ metadata = <<>>
    /\ files = <<>>
    /\ idx = 0
    /\ pc = "idle"
    /\ song_id = 0
    /\ meta_local = TrackMetadata_default
    /\ result = "none"
    /\ log = <<>>
    /\ artifacts0 = <<>>
    /\ metadata0 = <<>>
    /\ rerun = FALSE
    /\ extractCount = <<>>
    /\ main_pc = "start"
    /\ fs = NoDisk
    /\ songs = <<>>
    /\ requests = 0
    /\ cls_allowed = extns
    /\ cls_path = <<>>
    /\ cls_pc = "returned"
    /\ cls_out = None

\* ----------------------------------------------------------- startup_scan
\* A call of startup_scan(base_path, files, db).
StartRun ==
    /\ pc = "idle"
    /\ \E list \in RunLists :
          /\ files' = list
          /\ rerun' = (result = "Ok" /\ list = files)
    /\ pc' = "acquire"
    /\ idx' = 0
    /\ song_id' = 0
    /\ meta_local' = TrackMetadata_default
    /\ result' = "running"
    /\ log' = <<>>
    /\ artifacts0' = artifacts
    /\ metadata0' = metadata
    /\ UNCHANGED <<store, extractCount, mainVars, clsVars>>

\* `?` on a failed store operation: the error is returned (the locals of the
\* call are dropped; idx stays to tell which song failed)
ReturnErr(op) ==
    /\ pc' = "idle"
    /\ result' = "Err"
    /\ log' = Logged(op, idx, FALSE)
    /\ idx' = idx
    /\ song_id' = 0
    /\ meta_local' = TrackMetadata_default

\* the for loop moves to the song at position k, or ends and Ok(()) is returned
NextSong(k) ==
    /\ song_id' = 0
    /\ meta_local' = TrackMetadata_default
    /\ IF k > Len(files)
       THEN pc' = "idle" /\ result' = "Ok" /\ idx' = idx
       ELSE pc' = "find_select" /\ result' = result /\ idx' = k

\* db.acquire().await?
Acquire ==
    /\ pc = "acquire"
    /\ \E ok \in BOOLEAN :
          IF ok
          THEN log' = Logged("acquire", idx, TRUE) /\ NextSong(1)
          ELSE ReturnErr("acquire")
    /\ UNCHANGED <<store, files, artifacts0, metadata0, rerun, extractCount,
                   mainVars, clsVars>>

\* find_or_create_song stamping updated_at on the entry it finds
FindSelectTouch ==
    /\ pc = "find_select"
    /\ \E ok \in BOOLEAN :
          IF ~ok
          THEN ReturnErr("find_select") /\ artifacts' = artifacts
          ELSE /\ log' = Logged("find_select", idx, TRUE)
               /\ result' = result
               /\ idx' = idx
               /\ meta_local' = meta_local
               /\ IF find_existing(files[idx]) # {}
                  THEN /\ \E id \in find_existing(files[idx]), now \in Times :
                             /\ song_id' = id
                             /\ artifacts' =
                                  [i \in 1..Len(artifacts) |->
                                     IF artifacts[i].id = id
                                     THEN [artifacts[i] EXCEPT !.updated_at = Some(now)]
                                     ELSE artifacts[i]]
                       /\ pc' = "has_meta_select"
                  ELSE /\ song_id' = song_id
                       /\ artifacts' = artifacts
                       /\ pc' = "insert_artifact"
    /\ UNCHANGED <<metadata, files, artifacts0, metadata0, rerun, extractCount,
                   mainVars, clsVars>>

\* find_or_create_song: the select by (file_name, file_extension,
\* relative_path); a match is returned, otherwise the insert follows
FindSelect ==
    /\ pc = "find_select"
    /\ \E ok \in BOOLEAN :
          IF ~ok
          THEN ReturnErr("find_select")
          ELSE /\ log' = Logged("find_select", idx, TRUE)
               /\ result' = result
               /\ idx' = idx
               /\ meta_local' = meta_local
               /\ IF find_existing(files[idx]) # {}
                  THEN /\ \E id \in find_existing(files[idx]) : song_id' = id
                       /\ pc' = "has_meta_select"
                  ELSE /\ song_id' = song_id
                       /\ pc' = "insert_artifact"
    /\ UNCHANGED <<store, files, artifacts0, metadata0, rerun, extractCount,
                   mainVars, clsVars>>

\* find_or_create_song: the insert into filesystem_artifacts, returning id
InsertArtifact ==
    /\ pc = "insert_artifact"
    /\ \E ok \in BOOLEAN, now \in Times :
          IF ~ok
          THEN ReturnErr("insert_artifact") /\ artifacts' = artifacts
          ELSE /\ log' = Logged("insert_artifact", idx, TRUE)
               /\ result' = result
               /\ idx' = idx
               /\ meta_local' = meta_local
               /\ artifacts' = Append(artifacts,
                                 new_artifact(files[idx], Len(artifacts) + 1, now))
               /\ song_id' = Len(artifacts) + 1
               /\ pc' = "has_meta_select"
    /\ UNCHANGED <<metadata, files, artifacts0, metadata0, rerun, extractCount,
                   mainVars, clsVars>>

\* startup_scan's metadata gate with a failed select taken as "no row"
HasMetaSelectUnchecked ==
    /\ pc = "has_meta_select"
    /\ \E ok \in BOOLEAN :
          /\ log' = Logged("has_meta_select", idx, ok)
          /\ IF ok /\ has_meta(song_id)
             THEN NextSong(idx + 1)
             ELSE /\ pc' = "read_tags"
                  /\ UNCHANGED <<result, idx, song_id, meta_local>>
    /\ UNCHANGED <<store, files, artifacts0, metadata0, rerun, extractCount,
                   mainVars, clsVars>>

\* startup_scan: the select on track_metadata; save_metadata is called only
\* when it finds no row
HasMetaSelect ==
    /\ pc = "has_meta_select"
    /\ \E ok \in BOOLEAN :
          IF ~ok
          THEN ReturnErr("has_meta_select")
          ELSE /\ log' = Logged("has_meta_select", idx, TRUE)
               /\ IF has_meta(song_id)
                  THEN NextSong(idx + 1)
                  ELSE /\ pc' = "read_tags"
                       /\ UNCHANGED <<result, idx, song_id, meta_local>>
    /\ UNCHANGED <<store, files, artifacts0, metadata0, rerun, extractCount,
                   mainVars, clsVars>>

\* save_metadata: the tag read and the TrackMetadata built from it
ReadTags ==
    /\ pc = "read_tags"
    /\ Count(song_id) < MaxExtract
    /\ \E tag_res \in TagReads :
          /\ meta_local' = build_metadata(tag_res, song_id)
          /\ log' = Logged("read_tags", idx, tag_res.ok)
    /\ extractCount' = [i \in DOMAIN extractCount \cup {song_id} |->
                          IF i = song_id THEN Count(i) + 1 ELSE Count(i)]
    /\ pc' = "insert_meta"
    /\ UNCHANGED <<store, files, idx, song_id, result, artifacts0, metadata0,
                   rerun, mainVars, clsVars>>

\* save_metadata: the insert into track_metadata
InsertMeta ==
    /\ pc = "insert_meta"
    /\ \E ok \in BOOLEAN :
          IF ~ok
          THEN ReturnErr("insert_meta") /\ metadata' = metadata
          ELSE /\ log' = Logged("insert_meta", idx, TRUE)
               /\ metadata' = Append(metadata, meta_row(meta_local))
               /\ NextSong(idx + 1)
    /\ UNCHANGED <<artifacts, files, artifacts0, metadata0, rerun, extractCount,
                   mainVars, clsVars>>

Next ==
    \/ StartRun
    \/ Acquire
    \/ FindSelect
    \/ InsertArtifact
    \/ HasMetaSelect
    \/ ReadTags
    \/ InsertMeta

Spec == Init /\ [][Next]_vars

\* ------------------------------------------------------------------- main
MainInit ==
    /\ artifacts = <<>>
    /\ metadata = <<>>
    /\ files = <<>>
    /\ idx = 0
    /\ pc = "idle"
    /\ song_id = 0
    /\ meta_local = TrackMetadata_default
    /\ result = "none"
    /\ log = <<>>
    /\ artifacts0 = <<>>
    /\ metadata0 = <<>>
    /\ rerun = FALSE
    /\ extractCount = <<>>
    /\ main_pc = "start"
    /\ fs \in Disks
    /\ songs = <<>>
    /\ requests = 0
    /\ cls_allowed = extns
    /\ cls_path = <<>>
    /\ cls_pc = "returned"
    /\ cls_out = None

\* main: MUS_DIR, WEB_PORT and WEB_ADDR are read; a missing or unparsable
\* one panics
ReadEnv ==
    /\ main_pc = "start"
    /\ \E ok \in BOOLEAN : main_pc' = IF ok THEN "load" ELSE "panic_env"
    /\ UNCHANGED <<store, scanVars, clsVars, fs, songs, requests>>

\* main's library load with a failed crawl taken as an empty library
LoadLibraryLenient ==
    /\ main_pc = "load"
    /\ LET crawled == crawl_dir(fs, extns, start_path, start_path)
       IN  \E sorted \in sort_unstable_by_key(crawled.entries) :
              songs' = [i \in 1..Len(sorted) |-> with_id(sorted[i], i - 1)]
    /\ main_pc' = "bind"
    /\ UNCHANGED <<store, scanVars, clsVars, fs, requests>>

\* main: the library is crawled (unwrap panics on an error), sorted and
\* numbered by position
LoadLibrary ==
    /\ main_pc = "load"
    /\ LET crawled == crawl_dir(fs, extns, start_path, start_path)
       IN  IF ~crawled.ok
           THEN main_pc' = "panic_crawl" /\ songs' = songs
           ELSE /\ \E sorted \in sort_unstable_by_key(crawled.entries) :
                      songs' = [i \in 1..Len(sorted) |-> with_id(sorted[i], i - 1)]
                /\ main_pc' = "bind"
    /\ UNCHANGED <<store, scanVars, clsVars, fs, requests>>

\* main: HttpServer::new(..).bind(..); a failed bind panics
BindServer ==
    /\ main_pc = "bind"
    /\ \E ok \in BOOLEAN : main_pc' = IF ok THEN "bound" ELSE "panic_bind"
    /\ UNCHANGED <<store, scanVars, clsVars, fs, songs, requests>>

\* main: .run(): the server starts to accept requests
RunServer ==
    /\ main_pc = "bound"
    /\ main_pc' = "serving"
    /\ UNCHANGED <<store, scanVars, clsVars, fs, songs, requests>>

\* a request is accepted and served from the loaded songs
HandleRequest ==
    /\ main_pc = "serving"
    /\ requests < MaxRequests
    /\ requests' = requests + 1
    /\ UNCHANGED <<store, scanVars, clsVars, main_pc, fs, songs>>

\* main: .await returns when the server stops; an error panics
StopServer ==
    /\ main_pc = "serving"
    /\ \E ok \in BOOLEAN : main_pc' = IF ok THEN "exited" ELSE "panic_server"
    /\ UNCHANGED <<store, scanVars, clsVars, fs, songs, requests>>

MainNext ==
    \/ ReadEnv
    \/ LoadLibrary
    \/ BindServer
    \/ RunServer
    \/ HandleRequest
    \/ StopServer

MainSpec == MainInit /\ [][MainNext]_vars

\* ----------------------------------------------------- parse_path, called
\* the file names handed to parse_path: allowed and other extensions, an
\* extension in capitals, none, an empty one, a leading dot only, two dots
ClassifyNames ==
    { <<"s", ".", "m", "p", "3">>, <<"S", ".", "M", "P", "3">>,
      <<"s", ".", "f", "l", "a", "c">>, <<"s", ".", "t", "x", "t">>,
      <<"R", "E", "A", "D", "M", "E">>, <<".", "m", "p", "3">>,
      <<"s", ".">>, <<"s", ".", "m", "p", "3", ".", "t", "x", "t">> }
\* the relative paths handed to parse_path: a name under 0..MaxDepth directories
ClassifyPaths ==
    {dirs \o <<name>> : dirs \in SeqsUpTo({<<"A">>, <<"B">>}, MaxDepth),
                        name \in ClassifyNames}

ClassifyInit ==
    /\ artifacts = <<>>
    /\ metadata = <<>>
    /\ files = <<>>
    /\ idx = 0
    /\ pc = "idle"
    /\ song_id = 0
    /\ meta_local = TrackMetadata_default
    /\ result = "none"
    /\ log = <<>>
    /\ artifacts0 = <<>>
    /\ metadata0 = <<>>
    /\ rerun = FALSE
    /\ extractCount = <<>>
    /\ main_pc = "start"
    /\ fs = NoDisk
    /\ songs = <<>>
    /\ requests = 0
    /\ cls_allowed \in {extns, <<mp3>>}
    /\ cls_path \in ClassifyPaths
    /\ cls_pc = "called"
    /\ cls_out = None

\* a call of parse_path(allowed_extensions, rel_path) returns
Classify ==
    /\ cls_pc = "called"
    /\ cls_out' = parse_path(cls_allowed, cls_path)
    /\ cls_pc' = "returned"
    /\ UNCHANGED <<store, scanVars, mainVars, cls_allowed, cls_path>>

ClassifyNext == Classify

ClassifySpec == ClassifyInit /\ [][ClassifyNext]_vars

\* ----------------------------------------------------------------- claims
IsPrefix(p, q) == Len(p) <= Len(q) /\ SubSeq(q, 1, Len(p)) = p
Ids(tbl) == {tbl[i].id : i \in 1..Len(tbl)}
\* the catalog entries whose identity triple is that of a descriptor
EntriesOf(song) ==
    {artifacts[i].id : i \in {j \in 1..Len(artifacts) :
        <<artifacts[j].relative_path, artifacts[j].file_name,
          artifacts[j].file_extension>>
        = <<song.file_path, song.file_name, song.file_extension>>}}
Listed(row) ==
    \E k \in 1..Len(files) :
        <<files[k].file_path, files[k].file_name, files[k].file_extension>>
        = <<row.relative_path, row.file_name, row.file_extension>>
OkOps(op) == {j \in 1..Len(log) : log[j].op = op /\ log[j].ok}
NullRow(id) ==
    [filesystem_artifact_id |-> id, artist |-> None, album |-> None,
     track_name |-> None, genre |-> None, composer |-> None,
     release_year |-> None, track_number |-> None, duration |-> None]

\* C1: a run that is given the list of the run before it, which returned Ok,
\* inserts no row into filesystem_artifacts and none into track_metadata.
C1_Idempotent == rerun => artifacts = artifacts0 /\ metadata = metadata0

\* C1 witness: such a second run over two different files has returned Ok.
C1_Witness ==
    /\ rerun /\ pc = "idle" /\ result = "Ok"
    /\ Len(files) >= 2 /\ files[1].file_path # files[2].file_path
    /\ Len(artifacts) = 2 /\ Len(metadata) = 2

\* C2: in every reachable state every catalog entry id has at most one
\* track_metadata row.
C2_AtMostOneRow ==
    \A id \in Ids(artifacts) : Len(RowsOf(metadata, id)) <= 1

\* C2 witness: a run over a list that repeats a descriptor has returned Ok
\* for an entry whose tags were read twice (an earlier run was aborted at its
\* metadata insert), and the entry has its one row.
C2_Witness ==
    /\ pc = "idle" /\ result = "Ok"
    /\ Len(files) >= 2 /\ files[1].file_path = files[2].file_path
    /\ \E id \in EntriesOf(files[1]) :
          Count(id) = 2 /\ Len(RowsOf(metadata, id)) = 1

\* C3 (as claimed): the tags of any catalog entry are read at most once in
\* the lifetime of the catalog.
C3_ExtractAtMostOnce == \A id \in DOMAIN extractCount : extractCount[id] <= 1

\* C3 (amended): the tags of a catalog entry are never read while the entry
\* has a track_metadata row; they are read again only when no row was stored,
\* that is after a run was aborted by the failure of the entry's metadata
\* insert.
C3_NoExtractOnceStored ==
    [][\A id \in Ids(artifacts) :
          RowsOf(metadata, id) # <<>> =>
              /\ id \in DOMAIN extractCount'
              /\ extractCount'[id] = extractCount[id]]_vars

\* C3 witness: an entry whose tags were read twice has its row, and a later
\* run over it has returned Ok.
C3_Witness ==
    /\ pc = "idle" /\ result = "Ok" /\ rerun /\ Len(files) >= 1
    /\ \E id \in EntriesOf(files[1]) :
          Count(id) = 2 /\ RowsOf(metadata, id) # <<>>

\* C4: once an entry has a track_metadata row, no step deletes the row,
\* replaces it, adds another for the entry or changes a field of it,
\* whatever the tags a read would give now.
C4_MetadataMonotonic ==
    [][\A i \in 1..Len(metadata) :
          LET id == metadata[i].filesystem_artifact_id
          IN  RowsOf(metadata', id) = RowsOf(metadata, id)]_vars

\* C4 witness: a run has returned Ok over an entry that had its row when the
\* run began, and the row is the one it had.
C4_Witness ==
    /\ pc = "idle" /\ result = "Ok" /\ ~rerun /\ Len(files) >= 1
    /\ \E id \in EntriesOf(files[1]) :
          /\ RowsOf(metadata0, id) # <<>>
          /\ RowsOf(metadata, id) = RowsOf(metadata0, id)
          /\ RowsOf(metadata, id)[1].track_name = Some("Song")

\* C5: a failed tag read does not fail the run: the metadata insert follows
\* it and, once the insert succeeded, the descriptor's entry has exactly one
\* track_metadata row, with the entry id as its key and every content field
\* null, and the run goes on with the next descriptor (or returns Ok after
\* the last one).
C5_TagFailureYieldsNullRow ==
    \A j \in 1..Len(log) :
        (log[j].op = "read_tags" /\ ~log[j].ok) =>
            LET k == log[j].k
            IN  /\ j = Len(log) => (pc = "insert_meta" /\ result = "running")
                /\ j < Len(log) =>
                      /\ log[j + 1].op = "insert_meta" /\ log[j + 1].k = k
                      /\ log[j + 1].ok =>
                            /\ \A id \in EntriesOf(files[k]) :
                                  RowsOf(metadata, id) = <<NullRow(id)>>
                            /\ EntriesOf(files[k]) # {}
                            /\ IF j + 1 < Len(log)
                               THEN log[j + 2].k = k + 1
                               ELSE \/ pc = "find_select" /\ idx = k + 1
                                    \/ /\ pc = "idle" /\ result = "Ok"
                                       /\ k = Len(files)

\* C5 witness: the tag read failed for the first of two descriptors, and the
\* run has gone on and returned Ok.
C5_Witness ==
    /\ pc = "idle" /\ result = "Ok" /\ Len(files) = 2
    /\ \E j \in 1..Len(log) : log[j].op = "read_tags" /\ ~log[j].ok /\ log[j].k = 1
    /\ \E id \in EntriesOf(files[1]) : RowsOf(metadata, id) = <<NullRow(id)>>

\* C6: when the identity triple of the descriptor matches a catalog entry,
\* the select of find_or_create_song is followed by no insert into
\* filesystem_artifacts, and the id returned is that of the matching entry.
C6_ExistingEntryReturned ==
    [][(pc = "find_select" /\ EntriesOf(files[idx]) # {}) =>
          /\ artifacts' = artifacts
          /\ pc' \in {"has_meta_select", "idle"}
          /\ pc' = "has_meta_select" => song_id' \in EntriesOf(files[idx])
          /\ pc' = "idle" => result' = "Err"]_vars

\* C6 witness: the second descriptor of a run matched the second of two
\* entries that were in the catalog before the run.
C6_Witness ==
    /\ pc = "has_meta_select" /\ idx = 2 /\ song_id = 2
    /\ Len(artifacts0) = 2 /\ artifacts = artifacts0
    /\ song_id \in EntriesOf(files[2])

\* C7: when a store operation fails for descriptor k, the run returns the
\* error at once: the failed operation is the last of the run, no operation
\* was performed for a descriptor after k, and every row inserted before the
\* failure, and every row the run found, is in the store unchanged.
C7_AbortKeepsCommitted ==
    result = "Err" =>
        LET n == Len(log)
        IN  /\ pc = "idle"
            /\ n >= 1
            /\ log[n].op \in StoreOps /\ ~log[n].ok /\ log[n].k = idx
            /\ \A j \in 1..(n - 1) :
                  /\ log[j].k <= log[n].k
                  /\ log[j].op \in StoreOps => log[j].ok
            /\ IsPrefix(artifacts0, artifacts)
            /\ IsPrefix(metadata0, metadata)
            /\ Len(artifacts) = Len(artifacts0)
                                  + Cardinality(OkOps("insert_artifact"))
            /\ Len(metadata) = Len(metadata0) + Cardinality(OkOps("insert_meta"))

\* C7 witness: the metadata insert of the second descriptor failed after the
\* run had inserted both entries and the first descriptor's metadata row.
C7_Witness ==
    /\ result = "Err" /\ idx = 2 /\ log[Len(log)].op = "insert_meta"
    /\ Len(artifacts) = Len(artifacts0) + 2
    /\ Len(metadata) = Len(metadata0) + 1

\* C8 (as claimed): after a run that returned Ok, the entries whose identity
\* triple is not in the run's list have is_present = false and an updated
\* timestamp, and the entries whose triple is in the list have
\* is_present = true.
C8_MissingMarkedAbsent ==
    (pc = "idle" /\ result = "Ok") =>
        \A i \in 1..Len(artifacts) :
            /\ artifacts[i].is_present = Listed(artifacts[i])
            /\ ~Listed(artifacts[i]) => artifacts[i].updated_at # None

\* C9 (as claimed): whenever the server is bound or serving, the crawl and
\* the reconciliation (a call of startup_scan) have run to completion.
C9_ScanBeforeServe ==
    (main_pc \in {"bound", "serving", "exited"} \/ requests > 0) =>
        /\ crawl_dir(fs, extns, start_path, start_path).ok
        /\ pc = "idle" /\ result \in {"Ok", "Err"}

\* C10: when the crawl of the library returns an error, main never binds the
\* server nor serves a request.
C10_FailedCrawlNoServer ==
    ~crawl_dir(fs, extns, start_path, start_path).ok =>
        /\ main_pc \in {"start", "load", "panic_env", "panic_crawl"}
        /\ requests = 0

\* C10 witness: the listing of the album directory, two levels below the
\* library, failed and main panicked in the crawl.
C10_Witness ==
    /\ main_pc = "panic_crawl"
    /\ fs.unreadable = {start_path \o << <<"A">>, <<"B">> >>}
    /\ fs.broken = {}

\* the extension of the path is an exact member of the allowed list
InAllowed(allowed, path) ==
    \E e \in extension(path) : \E i \in 1..Len(allowed) : allowed[i] = e

\* C11: for a path whose extension is allowed, parse_path gives artist and
\* album the first and second segment when the path has exactly 3 segments,
\* and "Unknown" for both with any other number of segments.
C11_ArtistAlbumByArity ==
    (cls_pc = "returned" /\ InAllowed(cls_allowed, cls_path)) =>
        /\ cls_out # None
        /\ LET d == Unwrap(cls_out)
           IN  IF Len(cls_path) = 3
               THEN d.artist = cls_path[1] /\ d.album = cls_path[2]
               ELSE d.artist = Unknown /\ d.album = Unknown

\* C11 witness: parse_path has returned "Unknown"/"Unknown" for an allowed
\* file four segments deep.
C11_Witness ==
    /\ cls_pc = "returned" /\ Len(cls_path) = 4
    /\ InAllowed(cls_allowed, cls_path)
    /\ cls_out # None /\ Unwrap(cls_out).artist = Unknown

\* C12: parse_path returns no descriptor exactly when the path has no
\* extension or its extension is not an exact, case-sensitive member of the
\* allowed list.
C12_DescriptorIffAllowed ==
    cls_pc = "returned" => (cls_out = None <=> ~InAllowed(cls_allowed, cls_path))

\* C12 witness: parse_path has returned nothing for "S.MP3" with "mp3"
\* allowed.
C12_Witness ==
    /\ cls_pc = "returned" /\ cls_out = None
    /\ file_name(cls_path) = <<"S", ".", "M", "P", "3">>
    /\ cls_allowed = <<mp3>>

\* what crawl_dir returns for the library on disk
Crawled == crawl_dir(fs, extns, start_path, start_path)
\* the files on disk whose extension is allowed
AllowedFiles == {f \in fs.files : InAllowed(extns, f)}

\* C13: when the listing of any directory of the library fails, or the read
\* of any entry, crawl_dir returns the error and no descriptor, whatever it
\* had collected before; main is left with no descriptor.
C13_CrawlAllOrNothing ==
    (fs.unreadable # {} \/ fs.broken # {}) =>
        /\ ~Crawled.ok
        /\ Crawled.entries = <<>>
        /\ songs = <<>>

\* C13 witness: the crawl failed at the album directory, two levels down,
\* after the audio file at the root of the library had been listed.
C13_Witness ==
    /\ main_pc = "panic_crawl"
    /\ fs.unreadable = {start_path \o << <<"A">>, <<"B">> >>}
    /\ fs.listing[start_path][1] = start_path \o << <<"t", ".", "o", "g", "g">> >>
    /\ Len(fs.listing[start_path]) = 2

\* C14: for a library with no read error, crawl_dir returns exactly one
\* descriptor for each file with an allowed extension and none for any other
\* file, and the relative_path of each is the file's path from the root of
\* the library.
C14_OneDescriptorPerFile ==
    (fs.unreadable = {} /\ fs.broken = {}) =>
        /\ Crawled.ok
        /\ Len(Crawled.entries) = Cardinality(AllowedFiles)
        /\ {Crawled.entries[i].filepath : i \in 1..Len(Crawled.entries)}
           = {to_str(strip_prefix(f, start_path)) : f \in AllowedFiles}

\* C14 witness: the library holds all four files, three of them audio files
\* (two in the album directory, one at the root), and main has loaded them.
C14_Witness ==
    /\ main_pc = "bind" /\ Cardinality(fs.files) = 4
    /\ fs.unreadable = {} /\ fs.broken = {}
    /\ Len(songs) = 3
    /\ \E i \in 1..3 : songs[i].file_path =
           <<"A", "/", "B", "/", "s", ".", "m", "p", "3">>

\* C15: after a run that returned Ok, every descriptor of its list has one
\* catalog entry and that entry has exactly one track_metadata row, also an
\* entry that an earlier, aborted run had left without one.
C15_OkRunCompletesMetadata ==
    (pc = "idle" /\ result = "Ok") =>
        \A k \in 1..Len(files) :
            /\ Cardinality(EntriesOf(files[k])) = 1
            /\ \A id \in EntriesOf(files[k]) : Len(RowsOf(metadata, id)) = 1

\* C15 witness: the run found an entry with no metadata row (its tags had
\* been read once before, by a run aborted at the metadata insert) and has
\* returned Ok with the row in place.
C15_Witness ==
    /\ pc = "idle" /\ result = "Ok"
    /\ \E id \in Ids(artifacts0) :
          /\ RowsOf(metadata0, id) = <<>>
          /\ Len(RowsOf(metadata, id)) = 1
          /\ Count(id) = 2

\* C16: in every reachable state no two filesystem_artifacts rows have the
\* same (relative_path, file_name, file_extension).
C16_UniqueTriple ==
    \A i, j \in 1..Len(artifacts) :
        ( <<artifacts[i].relative_path, artifacts[i].file_name,
            artifacts[i].file_extension>>
          = <<artifacts[j].relative_path, artifacts[j].file_name,
              artifacts[j].file_extension>> ) => i = j

\* C16 witness: after an aborted run, a run over a list that names the same
\* file twice has returned Ok, and the catalog holds two entries.
C16_Witness ==
    /\ pc = "idle" /\ result = "Ok"
    /\ Len(files) >= 2 /\ files[1].file_path = files[2].file_path
    /\ Len(artifacts) = 2
    /\ \E id \in Ids(artifacts) : Count(id) = 2

C19_StepOrder ==
    [][log' # log =>
         \/ log' = <<>>
         \/ /\ Len(log') = Len(log) + 1
            /\ SubSeq(log', 1, Len(log)) = log
            /\ LET e == log'[Len(log')]
                   prev == log[Len(log)]
               IN  /\ e.k <= Len(files)
                   /\ e.op = "acquire" => log = <<>> /\ e.k = 0
                   /\ e.op # "acquire" => log # <<>>
                   /\ e.op = "find_select" =>
                         /\ prev.ok
                         /\ \/ prev.op = "acquire" /\ e.k = 1
                            \/ prev.op = "insert_meta" /\ e.k = prev.k + 1
                            \/ /\ prev.op = "has_meta_select" /\ e.k = prev.k + 1
                               /\ \A id \in EntriesOf(files[prev.k]) :
                                     RowsOf(metadata, id) # <<>>
                   /\ e.op = "insert_artifact" =>
                         /\ prev.op = "find_select" /\ prev.ok /\ prev.k = e.k
                         /\ EntriesOf(files[e.k]) = {}
                   /\ e.op = "has_meta_select" =>
                         /\ prev.ok /\ prev.k = e.k
                         /\ \/ prev.op = "insert_artifact"
                            \/ /\ prev.op = "find_select"
                               /\ EntriesOf(files[e.k]) # {}
                   /\ e.op = "read_tags" =>
                         /\ prev.op = "has_meta_select" /\ prev.ok /\ prev.k = e.k
                         /\ song_id \in EntriesOf(files[e.k])
                         /\ RowsOf(metadata, song_id) = <<>>
                   /\ e.op = "insert_meta" =>
                         prev.op = "read_tags" /\ prev.k = e.k]_vars

\* C19 witness: a run has gone through all five operations for its first
\* descriptor and through the two selects for its second, which names the
\* same file, and has returned Ok.
C19_Witness ==
    /\ pc = "idle" /\ result = "Ok" /\ Len(log) = 8
    /\ log[3].op = "insert_artifact" /\ log[6].op = "insert_meta"
    /\ log[7].op = "find_select" /\ log[7].k = 2
    /\ log[8].op = "has_meta_select"

\* C20: in every reachable state the filesystem_artifact_id of every
\* track_metadata row is the id of a filesystem_artifacts row.
C20_MetadataHasEntry ==
    \A i \in 1..Len(metadata) :
        metadata[i].filesystem_artifact_id \in Ids(artifacts)

\* C20 witness: a run was aborted after it had inserted two entries and the
\* metadata row of the first.
C20_Witness ==
    /\ pc = "idle" /\ result = "Err"
    /\ Len(artifacts) = 2 /\ Len(metadata) = 1
    /\ metadata[1].filesystem_artifact_id = 1

\* the disks that hold the same files as fs and read without error, their
\* directories listed in any order
SameFilesDisks ==
    {d \in Disks : d.files = fs.files /\ d.unreadable = {} /\ d.broken = {}}

\* every numbered library main can build from disk d
Libraries(d) ==
    {[i \in 1..Len(sorted) |-> with_id(sorted[i], i - 1)] :
        sorted \in sort_unstable_by_key(
                      crawl_dir(d, extns, start_path, start_path).entries)}

\* C18: the sorted, numbered library main hands on is the same for the same
\* set of files whatever order the directories were listed in, also when two
\* descriptors have the same (artist, album, filename) key.
C18_OrderDeterminedByFiles ==
    (main_pc \in {"bind", "bound", "serving", "exited"}) =>
        \A d \in SameFilesDisks : Libraries(d) = {songs}

====
